---- MODULE Spec2Model ----
(***************************************************************************)
(* Model of the hero image scraper (src/main.py): the startup of the       *)
(* sqlite store, the sequential loop of extract_hero_image_from_urls over  *)
(* the URL list, download_image, and the pure string computations          *)
(* (sanitize_filename, image source resolution, extension policy).         *)
(* Python strings are modelled as sequences of one-character strings.      *)
(***************************************************************************)
EXTENDS Integers, Sequences, FiniteSets, TLC

(***************************************************************************)
(* Bounds of the model.                                                    *)
(***************************************************************************)
MaxList == 2
MaxRuns == 2
MaxTime == 2

(***************************************************************************)
(* Strings.                                                                *)
(***************************************************************************)
\* Python's None for a string-valued variable (distinct from every string)
None == <<"<None>">>

\* the empty string ''
Empty == <<>>

StartsWith(s, p) == Len(s) >= Len(p) /\ SubSeq(s, 1, Len(p)) = p

\* `p in s` for strings
Contains(s, p) ==
    \E i \in 1..(Len(s) - Len(p) + 1) : SubSeq(s, i, i + Len(p) - 1) = p

\* index of the first occurrence of character c in s, 0 when there is none
FirstIndex(s, c) ==
    IF \E i \in 1..Len(s) : s[i] = c
    THEN CHOOSE i \in 1..Len(s) : s[i] = c /\ \A j \in 1..(i - 1) : s[j] # c
    ELSE 0

\* index of the last occurrence of character c in s, 0 when there is none
LastIndex(s, c) ==
    IF \E i \in 1..Len(s) : s[i] = c
    THEN CHOOSE i \in 1..Len(s) : s[i] = c /\ \A j \in (i + 1)..Len(s) : s[j] # c
    ELSE 0

\* str.split(c): the pieces of s between the occurrences of c
RECURSIVE Split(_, _)
Split(s, c) ==
    LET i == FirstIndex(s, c)
    IN  IF i = 0 THEN <<s>>
        ELSE <<SubSeq(s, 1, i - 1)>> \o Split(SubSeq(s, i + 1, Len(s)), c)

\* c.join(parts)
RECURSIVE Join(_, _)
Join(parts, c) ==
    IF Len(parts) = 0 THEN <<>>
    ELSE IF Len(parts) = 1 THEN parts[1]
    ELSE parts[1] \o <<c>> \o Join(Tail(parts), c)

\* parts[:n]
Take(parts, n) == SubSeq(parts, 1, IF Len(parts) < n THEN Len(parts) ELSE n)

\* str.rstrip(c): every trailing c removed
RECURSIVE RStrip(_, _)
RStrip(s, c) ==
    IF Len(s) > 0 /\ s[Len(s)] = c THEN RStrip(SubSeq(s, 1, Len(s) - 1), c) ELSE s

UpperChars == <<"A","B","C","D","E","F","G","H","I","J","K","L","M",
                "N","O","P","Q","R","S","T","U","V","W","X","Y","Z">>
LowerChars == <<"a","b","c","d","e","f","g","h","i","j","k","l","m",
                "n","o","p","q","r","s","t","u","v","w","x","y","z">>
DigitChars == <<"0","1","2","3","4","5","6","7","8","9">>

\* str.lower()
LowerChar(c) ==
    IF \E i \in 1..26 : UpperChars[i] = c
    THEN LowerChars[CHOOSE i \in 1..26 : UpperChars[i] = c]
    ELSE c

Lower(s) == [i \in 1..Len(s) |-> LowerChar(s[i])]

\* the characters the pattern [a-zA-Z0-9_-] accepts
FilenameChars ==
    {UpperChars[i] : i \in 1..26} \cup {LowerChars[i] : i \in 1..26}
        \cup {DigitChars[i] : i \in 1..10} \cup {"_", "-"}

(***************************************************************************)
(* sanitize_filename                                                       *)
(***************************************************************************)
\* the length limit of a sanitized name
FilenameLimit == 100

\* length of the match of ^https?://[^/]+/ at the start of url, 0 for no match
SchemeHostMatch(url) ==
    LET http  == <<"h","t","t","p",":","/","/">>
        https == <<"h","t","t","p","s",":","/","/">>
        pre   == IF StartsWith(url, https) THEN Len(https)
                 ELSE IF StartsWith(url, http) THEN Len(http) ELSE 0
        rest  == SubSeq(url, pre + 1, Len(url))
        slash == FirstIndex(rest, "/")
    IN  IF pre > 0 /\ slash >= 2 THEN pre + slash ELSE 0

\* a slip: the name returned without the [:100]
sanitize_filenameUnlimited(url) ==
    LET path     == SubSeq(url, SchemeHostMatch(url) + 1, Len(url))
        stripped == RStrip(path, "/")
    IN  [i \in 1..Len(stripped) |->
            IF stripped[i] \in FilenameChars THEN stripped[i] ELSE "_"]

\* lines 13-22
sanitize_filename(url) ==
    LET path      == SubSeq(url, SchemeHostMatch(url) + 1, Len(url))
        stripped  == RStrip(path, "/")
        sanitized == [i \in 1..Len(stripped) |->
                        IF stripped[i] \in FilenameChars THEN stripped[i] ELSE "_"]
    IN  SubSeq(sanitized, 1,
               IF Len(sanitized) < FilenameLimit THEN Len(sanitized) ELSE FilenameLimit)

(***************************************************************************)
(* Image source resolution and extension policy                            *)
(***************************************************************************)
\* `if image_src:` : neither None nor the empty string
Truthy(v) == v # None /\ v # Empty

\* lines 94-100: the absolute URL of a located source
ResolveSource(url, image_src) ==
    IF StartsWith(image_src, <<"/">>)
    THEN IF StartsWith(image_src, <<"/", "/">>)
         THEN Split(url, ":")[1] \o <<":">> \o image_src
         ELSE Join(Take(Split(url, "/"), 3), "/") \o image_src
    ELSE image_src

\* os.path.splitext(p)[1] (posixpath): from the last dot of the last path
\* component, leading dots of that component not counting
SplitExt(p) ==
    LET sepIndex == LastIndex(p, "/")
        dotIndex == LastIndex(p, ".")
    IN  IF dotIndex > sepIndex
           /\ \E j \in (sepIndex + 1)..(dotIndex - 1) : p[j] # "."
        THEN SubSeq(p, dotIndex, Len(p))
        ELSE <<>>

valid_extensions ==
    { <<".","j","p","g">>, <<".","j","p","e","g">>, <<".","p","n","g">>,
      <<".","g","i","f">>, <<".","w","e","b","p">> }

\* lines 104-113
FileExt(image_src) ==
    LET raw    == SplitExt(image_src)
        ext    == IF raw = <<>> THEN <<".","j","p","g">> ELSE raw
        dotted == IF StartsWith(ext, <<".">>) THEN ext ELSE <<".">> \o ext
    IN  IF Lower(dotted) \in valid_extensions THEN dotted ELSE <<".","j","p","g">>

\* lines 102, 115: the name of the saved file inside the images directory
ImageFilename(url, image_src) == sanitize_filename(url) \o FileExt(image_src)

(***************************************************************************)
(* Inputs: the URL list and what the rendered pages hold                   *)
(***************************************************************************)
UrlA == <<"h","t","t","p",":","/","/","s","/","a","/">>
UrlV == <<"h","t","t","p",":","/","/","s","/","v","i","d","e","o","s","/","v">>
URLS == {UrlA, UrlV}

SrcRoot  == <<"/","i",".","p","n","g">>
SrcProto == <<"/","/","c","/","m",".","p","n","g">>

\* what get_attribute can give: a value, the empty string or None
MetaValues   == {None, Empty, SrcProto}
FigureValues == {None, Empty, SrcRoot}

\* the lists of at most MaxList URLs
UrlLists == UNION {[1..n -> URLS] : n \in 0..MaxList}

(***************************************************************************)
(* The store: table downloaded_images                                      *)
(***************************************************************************)
\* SQL NULL in successful_download_datetime / None in successful_download_time
NULL == -1
\* the default ' ' of try_download_datetime, smaller than every timestamp
Blank == 0
\* fetchone() returning None
NoResult == -1

AllCols == {"successful_download", "try_download_datetime",
            "successful_download_datetime"}

\* a row added by ADD COLUMN defaults: 0, ' ', NULL
DefaultRow == [succ |-> 0, try |-> Blank, sdt |-> NULL]

HasRow(d, u) == u \in DOMAIN d

\* INSERT INTO downloaded_images ... VALUES (url, ...)
DbInsert(d, u, row) == [v \in DOMAIN d \cup {u} |-> IF v = u THEN row ELSE d[v]]

\* UPDATE downloaded_images SET ... WHERE url = ?
DbUpdate(d, u, row) == [v \in DOMAIN d |-> IF v = u THEN row ELSE d[v]]

\* UPDATE ... SET try_download_datetime = now WHERE try_download_datetime = ' '
DbFillBlank(d, now) ==
    [v \in DOMAIN d |-> IF d[v].try = Blank THEN [d[v] EXCEPT !.try = now] ELSE d[v]]

(***************************************************************************)
(* State                                                                   *)
(***************************************************************************)
VARIABLES
    urls,          \* the URL list of the program
    pc,            \* position of main / extract_hero_image_from_urls
    status,        \* how the execution is going or how it ended
    runs,          \* executions of the program started so far
    clock,         \* datetime.now(utc)
    conn,          \* the sqlite connection: "none", "open", "closed"
    closes,        \* conn.close() calls in this execution
    tableExists,   \* downloaded_images exists (committed)
    cols,          \* its columns beside id and url (committed)
    db,            \* its rows by url (committed)
    tx,            \* the connection's open transaction: <<>> or <<[db, cols]>>
    dirExists,     \* the images directory exists
    files,         \* the files of the images directory, by name
    idx,           \* position in urls of the entry being processed
    result,        \* cur.fetchone(): NoResult or successful_download
    image_src,
    image_filepath,
    download_successful,
    try_download_time,
    successful_download_time,
    stmt,          \* the INSERT/UPDATE executed for this entry: <<>> or <<[...]>>
    acts,          \* history: the operations performed for this entry, in order
    env,           \* history: what the collaborators answered for this entry, src
                   \* being the image source as the page gave it
    touched,       \* history: this execution navigated, looked up, fetched, wrote a file,
                   \* created the images directory or wrote to the store
    upserts,       \* history: INSERT/UPDATE statements executed per URL in this execution
    startDb        \* history: the rows when the URL loop of this execution began

vars == <<urls, pc, status, runs, clock, conn, closes, tableExists, cols, db, tx,
          dirExists, files, idx, result, image_src, image_filepath,
          download_successful, try_download_time, successful_download_time,
          stmt, acts, env, touched, upserts, startDb>>

storeVars  == <<tableExists, cols, db>>
localVars  == <<result, image_src, image_filepath, download_successful,
                try_download_time, successful_download_time, stmt>>
histVars   == <<acts, env, touched, upserts, startDb>>

\* what the connection sees: its open transaction, else the committed state
View == IF tx = <<>> THEN [db |-> db, cols |-> cols] ELSE tx[1]

NoEnv == [nav |-> "none", meta |-> "none", figure |-> "none", src |-> None,
          download |-> "none", write |-> "none"]

ZeroUpserts == [u \in URLS |-> 0]

\* a store left by an earlier version of the program: url column only
LegacyDb == [u \in {UrlA} |-> DefaultRow]
EmptyDb  == [u \in {} |-> DefaultRow]
NoFiles  == [n \in {} |-> <<>>]

Init ==
    /\ urls \in UrlLists
    /\ pc = "connect"
    /\ status = "running"
    /\ runs = 1
    /\ clock = 1
    /\ conn = "none"
    /\ closes = 0
    /\ \/ tableExists = FALSE /\ cols = {} /\ db = EmptyDb
       \/ tableExists = TRUE /\ cols = {} /\ db = LegacyDb
    /\ tx = <<>>
    /\ dirExists = FALSE
    /\ files = NoFiles
    /\ idx = 0
    /\ result = NoResult
    /\ image_src = None
    /\ image_filepath = None
    /\ download_successful = FALSE
    /\ try_download_time = NULL
    /\ successful_download_time = NULL
    /\ stmt = <<>>
    /\ acts = <<>>
    /\ env = NoEnv
    /\ touched = FALSE
    /\ upserts = ZeroUpserts
    /\ startDb = db

(***************************************************************************)
(* main: startup of the store (lines 163-203)                              *)
(***************************************************************************)
\* time passes: between executions and while an image is fetched
TickPoints == {"connect", "download"}

Tick ==
    /\ pc \in TickPoints
    /\ clock < MaxTime
    /\ clock' = clock + 1
    /\ UNCHANGED <<urls, pc, status, runs, conn, closes, storeVars, tx, dirExists,
                   files, idx, localVars, histVars>>

\* line 166: sqlite3.connect
Connect ==
    /\ pc = "connect"
    /\ \E r \in {"ok", "err"} :
         IF r = "ok"
         THEN conn' = "open" /\ pc' = "create_table" /\ status' = status
         ELSE conn' = conn /\ pc' = "init_failed" /\ status' = status
    /\ UNCHANGED <<urls, runs, clock, closes, storeVars, tx, dirExists, files, idx,
                   localVars, histVars>>

\* lines 169-177: CREATE TABLE IF NOT EXISTS
CreateTable ==
    /\ pc = "create_table"
    /\ \E r \in {"ok", "err"} :
         IF r = "ok"
         THEN /\ pc' = "alter1"
              /\ tableExists' = TRUE
              /\ cols' = IF tableExists THEN cols ELSE AllCols
         ELSE pc' = "init_failed" /\ UNCHANGED <<tableExists, cols>>
    /\ UNCHANGED <<urls, status, runs, clock, conn, closes, db, tx, dirExists, files,
                   idx, localVars, histVars>>

AlterPc == <<"alter1", "alter2", "alter3">>
AlterCol == <<"successful_download", "try_download_datetime",
              "successful_download_datetime">>
AfterAlter == <<"alter2", "alter3", "init_commit">>

\* what one ALTER TABLE ADD COLUMN block can meet: the column is added ("ok"),
\* OperationalError for a column that exists ("dup"), any other
\* OperationalError ("operr"), any other sqlite3.Error ("dberr"); for
\* try_download_datetime the UPDATE that follows can fail as well
AlterOutcomes(k) ==
    IF AlterCol[k] \in View.cols THEN {"dup", "dberr"}
    ELSE {"ok", "operr", "dberr"}
         \cup (IF k = 2 THEN {"update_operr", "update_dberr"} ELSE {})

\* whether the block's except clause swallows the outcome (lines 182, 189, 194)
Swallowed(r) == r \in {"dup", "operr", "update_operr"}

\* lines 179-195: one ALTER TABLE ADD COLUMN block
AddColumn(k) ==
    /\ pc = AlterPc[k]
    /\ \E r \in AlterOutcomes(k) :
         LET added == r \in {"ok", "update_operr", "update_dberr"}
             filled == k = 2 /\ r = "ok"
         IN  /\ pc' = IF r = "ok" \/ Swallowed(r) THEN AfterAlter[k] ELSE "init_failed"
             \* DDL outside a transaction is committed at once; inside the
             \* transaction opened by the UPDATE it is part of it
             /\ IF tx = <<>>
                THEN /\ cols' = IF added THEN cols \cup {AlterCol[k]} ELSE cols
                     /\ tx' = IF filled
                              THEN <<[db |-> DbFillBlank(db, clock), cols |-> cols']>>
                              ELSE <<>>
                ELSE /\ cols' = cols
                     /\ tx' = IF added
                              THEN <<[tx[1] EXCEPT !.cols = @ \cup {AlterCol[k]}]>>
                              ELSE tx
    /\ UNCHANGED <<urls, status, runs, clock, conn, closes, tableExists, db,
                   dirExists, files, idx, localVars, histVars>>

\* line 197: conn.commit()
InitCommit ==
    /\ pc = "init_commit"
    /\ \E r \in {"ok", "err"} :
         IF r = "ok"
         THEN /\ pc' = "makedirs"
              /\ db' = View.db /\ cols' = View.cols /\ tx' = <<>>
         ELSE pc' = "init_failed" /\ UNCHANGED <<db, cols, tx>>
    /\ startDb' = db'
    /\ UNCHANGED <<urls, status, runs, clock, conn, closes, tableExists, dirExists,
                   files, idx, localVars, acts, env, touched, upserts>>

\* a slip: no `return`, so main goes on to `if conn:` (a closed connection
\* object is still true) and the URL loop
AfterInitFailureFallsThrough(c) == IF c = "none" THEN "ended" ELSE "makedirs"

\* line 203: `return`: where main goes on after a failed startup
AfterInitFailure(c) == "ended"

\* lines 199-203: except sqlite3.Error: close the connection if there is one,
\* and return
InitFailed ==
    /\ pc = "init_failed"
    /\ conn' = IF conn = "none" THEN conn ELSE "closed"
    /\ closes' = IF conn = "none" THEN closes ELSE closes + 1
    /\ tx' = <<>>
    /\ pc' = AfterInitFailure(conn)
    /\ status' = "startup_failed"
    /\ UNCHANGED <<urls, runs, clock, storeVars, dirExists, files, idx, localVars,
                   histVars>>

(***************************************************************************)
(* extract_hero_image_from_urls (lines 40-157)                             *)
(***************************************************************************)
Url == urls[idx]

\* history: the operations ops were performed
Log(ops) == acts' = acts \o ops /\ touched' = TRUE

\* the exception leaves extract_hero_image_from_urls: main's finally is next
Raise == pc' = "finally" /\ status' = "raising"

\* lines 42-44: the images directory
MakeDirs ==
    /\ pc = "makedirs"
    /\ IF dirExists
       THEN pc' = "launch" /\ UNCHANGED <<dirExists, status, touched>>
       ELSE \E r \in {"ok", "err"} :
              IF r = "ok"
              THEN /\ dirExists' = TRUE /\ pc' = "launch" /\ status' = status
                   /\ touched' = TRUE
              ELSE Raise /\ UNCHANGED <<dirExists, touched>>
    /\ UNCHANGED <<urls, runs, clock, conn, closes, storeVars, tx, files, idx,
                   localVars, acts, env, upserts, startDb>>

\* lines 46-50: the browser, the page, the HTTP session, the cursor
Launch ==
    /\ pc = "launch"
    /\ \E r \in {"ok", "err"} :
         IF r = "ok"
         THEN pc' = "select" /\ idx' = 1 /\ status' = status
         ELSE Raise /\ idx' = idx
    /\ UNCHANGED <<urls, runs, clock, conn, closes, storeVars, tx, dirExists, files,
                   localVars, histVars>>

\* the SELECT cannot succeed on a table without the column it reads
SelectOutcomes ==
    IF "successful_download" \in View.cols THEN {"ok", "err"} ELSE {"err"}

\* a slip: the records read once, before the loop, instead of at each entry
FetchedBeforeLoop(d, u) == IF HasRow(startDb, u) THEN startDb[u].succ ELSE NoResult

\* lines 55-56: what the SELECT and fetchone() give for url u on rows d
Fetched(d, u) == IF HasRow(d, u) THEN d[u].succ ELSE NoResult

\* lines 51-56: the next URL of the list and its SELECT; a sqlite3.Error is
\* caught nowhere in extract_hero_image_from_urls
Select ==
    /\ pc = "select"
    /\ idx \in 1..Len(urls)
    /\ \E r \in SelectOutcomes :
         IF r = "ok"
         THEN /\ result' = Fetched(View.db, Url)
              /\ pc' = "decide" /\ status' = status
         ELSE Raise /\ result' = result
    /\ acts' = <<"select">>
    /\ UNCHANGED <<urls, runs, clock, conn, closes, storeVars, tx, dirExists, files,
                   idx, image_src, image_filepath, download_successful,
                   try_download_time, successful_download_time, stmt, env, touched,
                   upserts, startDb>>

\* a slip: the row compared with 1 instead of its column, never true
ShouldSkipComparesRow(r) == FALSE

\* line 58: `result and result[0] == 1`
ShouldSkip(r) == r # NoResult /\ r = 1

\* the locals of a finished entry are dead: the next iteration assigns each
\* of them before it reads it (lines 56, 65-69, 102-116)
DeadLocals ==
    /\ result' = NoResult
    /\ image_src' = None
    /\ image_filepath' = None
    /\ download_successful' = FALSE
    /\ try_download_time' = NULL
    /\ successful_download_time' = NULL

\* the entry is finished: on to the next one; the history of the entry ends
NextEntry ==
    /\ pc' = "select" /\ idx' = idx + 1
    /\ DeadLocals
    /\ stmt' = <<>> /\ acts' = <<>> /\ env' = NoEnv

\* lines 58-60: already downloaded, continue
Skip ==
    /\ pc = "decide"
    /\ ShouldSkip(result)
    /\ NextEntry
    /\ UNCHANGED <<urls, status, runs, clock, conn, closes, storeVars, tx, dirExists,
                   files, touched, upserts, startDb>>

\* lines 65-69: the locals of an attempt and the time it starts
BeginAttempt ==
    /\ pc = "decide"
    /\ ~ShouldSkip(result)
    /\ image_src' = None
    /\ image_filepath' = None
    /\ download_successful' = FALSE
    /\ successful_download_time' = NULL
    /\ try_download_time' = clock
    /\ pc' = "goto"
    /\ UNCHANGED <<urls, status, runs, clock, conn, closes, storeVars, tx, dirExists,
                   files, idx, result, stmt, histVars>>

\* a slip: a misspelt path segment
IsVideoMisspelt(url) == Contains(url, <<"/","v","i","d","e","o","/">>)

\* line 75: `"/videos/" in url`
IsVideo(url) == Contains(url, <<"/","v","i","d","e","o","s","/">>)

\* line 72: page.goto; a playwright Error is caught at line 129
Goto ==
    /\ pc = "goto"
    /\ \E r \in {"ok", "err"} :
         /\ env' = [env EXCEPT !.nav = r]
         /\ pc' = IF r = "err" THEN "db_log"
                  ELSE IF IsVideo(Url) THEN "og_image" ELSE "figure"
    /\ Log(<<"goto">>)
    /\ UNCHANGED <<urls, status, runs, clock, conn, closes, storeVars, tx, dirExists,
                   files, idx, localVars, upserts, startDb>>

\* lines 76-80: the og:image meta tag of a video page; get_attribute gives a
\* value, '' or None, or raises a playwright Error (caught at line 129)
OgImage ==
    /\ pc = "og_image"
    /\ \/ \E v \in MetaValues :
            /\ image_src' = v
            /\ env' = [env EXCEPT !.meta = IF Truthy(v) THEN "value" ELSE "nothing",
                                  !.src = v]
            /\ pc' = IF Truthy(v) THEN "found" ELSE "figure"
       \/ /\ env' = [env EXCEPT !.meta = "err"]
          /\ image_src' = image_src
          /\ pc' = "db_log"
    /\ Log(<<"og_image">>)
    /\ UNCHANGED <<urls, status, runs, clock, conn, closes, storeVars, tx, dirExists,
                   files, idx, result, image_filepath, download_successful,
                   try_download_time, successful_download_time, stmt, upserts,
                   startDb>>

\* lines 83-88: the first img of a figure
Figure ==
    /\ pc = "figure"
    /\ \/ \E v \in FigureValues :
            /\ image_src' = v
            /\ env' = [env EXCEPT !.figure = IF Truthy(v) THEN "value" ELSE "nothing",
                                  !.src = v]
            /\ pc' = "found"
       \/ /\ env' = [env EXCEPT !.figure = "err"]
          /\ image_src' = image_src
          /\ pc' = "db_log"
    /\ Log(<<"figure">>)
    /\ UNCHANGED <<urls, status, runs, clock, conn, closes, storeVars, tx, dirExists,
                   files, idx, result, image_filepath, download_successful,
                   try_download_time, successful_download_time, stmt, upserts,
                   startDb>>

\* lines 91-116 and 124-127: the absolute URL and the path of the file, or no
\* image source
Resolve ==
    /\ pc = "found"
    /\ IF Truthy(image_src)
       THEN /\ image_src' = ResolveSource(Url, image_src)
            /\ image_filepath' = ImageFilename(Url, image_src')
            /\ pc' = "download"
       ELSE /\ pc' = "db_log"
            /\ UNCHANGED <<image_src, image_filepath>>
    /\ UNCHANGED <<urls, status, runs, clock, conn, closes, storeVars, tx, dirExists,
                   files, idx, result, download_successful, try_download_time,
                   successful_download_time, stmt, histVars>>

\* what session.get, raise_for_status, aiofiles.open, response.read and f.write
\* can meet (lines 27-30): "get_err" and "read_err" are aiohttp.ClientError,
\* "status_err" the ClientResponseError of a bad status, "open_err" and
\* "write_err" IOError, "get_other" and "read_other" an exception that is
\* neither (asyncio.TimeoutError)
DownloadOutcomes == {"ok", "get_err", "status_err", "get_other", "open_err",
                     "read_err", "read_other", "write_err"}

\* the outcomes download_image does not catch: they reach line 132
Uncaught(o) == o \in {"get_other", "read_other"}

\* a slip: True returned from the IOError handler as well
DownloadResultIgnoresIOError(o) == o \in {"ok", "open_err", "write_err"}

\* lines 24-38: the value download_image returns for an outcome it handles
DownloadResult(o) == o = "ok"

\* the calls download_image made before the outcome
DownloadOps(o) ==
    IF o \in {"get_err", "status_err", "get_other"} THEN <<"get">>
    ELSE IF o \in {"open_err", "read_err", "read_other"} THEN <<"get", "open">>
    ELSE <<"get", "open", "write">>

\* a slip: the file opened before the request is made, so that every outcome
\* but a failed open leaves it truncated or rewritten
FileAfterOpenedFirst(fs, path, src, o) ==
    IF o = "open_err" THEN fs
    ELSE LET content == IF o = "ok" THEN [state |-> "full", src |-> src]
                        ELSE [state |-> "truncated", src |-> <<>>]
         IN  [n \in DOMAIN fs \cup {path} |-> IF n = path THEN content ELSE fs[n]]

\* the file at path afterwards: mode 'wb' truncates it as soon as it is open,
\* and only a write that completes leaves the whole body in it
FileAfter(fs, path, src, o) ==
    IF o \in {"get_err", "status_err", "get_other", "open_err"} THEN fs
    ELSE LET content == IF o = "ok" THEN [state |-> "full", src |-> src]
                        ELSE [state |-> "truncated", src |-> <<>>]
         IN  [n \in DOMAIN fs \cup {path} |-> IF n = path THEN content ELSE fs[n]]

\* a slip: the time of success taken whatever download_image returned
SuccessTimeAlways(ok, now, before) == now

\* lines 120-122: the time of the success, None when the download failed
SuccessTime(ok, now, before) == IF ok THEN now ELSE before

\* lines 119-121: download_image and the time of the success
Download ==
    /\ pc = "download"
    /\ \E o \in DownloadOutcomes :
         /\ env' = [env EXCEPT !.download = o]
         /\ files' = FileAfter(files, image_filepath, image_src, o)
         /\ download_successful' =
                IF Uncaught(o) THEN download_successful ELSE DownloadResult(o)
         /\ Log(DownloadOps(o))
    /\ successful_download_time' =
           SuccessTime(download_successful', clock, successful_download_time)
    /\ pc' = "db_log"
    /\ UNCHANGED <<urls, status, runs, clock, conn, closes, storeVars, tx, dirExists,
                   idx, result, image_src, image_filepath, try_download_time, stmt,
                   upserts, startDb>>

\* a slip: the two timestamps passed in each other's place
OutcomeRowSwapped ==
    [succ |-> IF download_successful THEN 1 ELSE 0,
     try  |-> successful_download_time,
     sdt  |-> try_download_time]

\* the row the INSERT or UPDATE writes (lines 142, 149)
OutcomeRow ==
    [succ |-> IF download_successful THEN 1 ELSE 0,
     try  |-> try_download_time,
     sdt  |-> successful_download_time]

\* a slip: `if not result or result[0] == 0`: INSERT for a failed record too
StmtKindInsertsOnFailed(r) == IF r = NoResult \/ r = 0 THEN "insert" ELSE "update"

\* line 138: INSERT for a new URL, UPDATE otherwise
StmtKind(r) == IF r = NoResult THEN "insert" ELSE "update"

\* the execute cannot succeed on a table that lacks a column it names, nor an
\* INSERT on a url that has a row (UNIQUE)
ExecOutcomes ==
    IF View.cols # AllCols THEN {"err"}
    ELSE IF StmtKind(result) = "insert" /\ HasRow(View.db, Url) THEN {"err"}
    ELSE {"ok", "err"}

\* lines 137-150: the INSERT or UPDATE of the outcome
DbLog ==
    /\ pc = "db_log"
    /\ stmt' = <<[kind |-> StmtKind(result), url |-> Url, row |-> OutcomeRow]>>
    /\ upserts' = [upserts EXCEPT ![Url] = @ + 1]
    /\ \E r \in ExecOutcomes :
         /\ env' = [env EXCEPT !.write = r]
         /\ IF r = "ok"
            THEN /\ tx' = <<[db   |-> IF StmtKind(result) = "insert"
                                      THEN DbInsert(View.db, Url, OutcomeRow)
                                      ELSE DbUpdate(View.db, Url, OutcomeRow),
                             cols |-> View.cols]>>
                 /\ pc' = "commit"
            ELSE tx' = tx /\ pc' = "rollback"
    /\ Log(<<StmtKind(result)>>)
    /\ UNCHANGED <<urls, status, runs, clock, conn, closes, storeVars, dirExists,
                   files, idx, result, image_src, image_filepath,
                   download_successful, try_download_time,
                   successful_download_time, startDb>>

\* line 152: conn.commit()
Commit ==
    /\ pc = "commit"
    /\ \E r \in {"ok", "err"} :
         IF r = "ok"
         THEN /\ db' = View.db /\ cols' = View.cols /\ tx' = <<>>
              /\ NextEntry
         ELSE /\ pc' = "rollback"
              /\ env' = [env EXCEPT !.write = "commit_err"]
              /\ acts' = acts \o <<"commit">>
              /\ UNCHANGED <<db, cols, tx, idx, localVars>>
    /\ UNCHANGED <<urls, status, runs, clock, conn, closes, tableExists, dirExists,
                   files, touched, upserts, startDb>>

\* a slip: conn.commit() in the handler, which keeps what is pending
RolledBackKeepsPending(d, t) == IF t = <<>> THEN d ELSE t[1].db

\* the rows after conn.rollback(): the committed ones
RolledBack(d, t) == d

\* a slip: `pass` in the handler, which leaves what is pending pending
PendingKept(t) == t

\* line 155: what is pending on the connection after conn.rollback(): nothing
PendingAfterRollback(t) == <<>>

\* lines 153-155: except sqlite3.Error: conn.rollback()
Rollback ==
    /\ pc = "rollback"
    /\ db' = RolledBack(db, tx)
    /\ tx' = PendingAfterRollback(tx)
    /\ NextEntry
    /\ UNCHANGED <<urls, status, runs, clock, conn, closes, tableExists, cols,
                   dirExists, files, touched, upserts, startDb>>

\* line 157: the list is exhausted, browser.close()
LoopExit ==
    /\ pc = "select"
    /\ idx = Len(urls) + 1
    /\ pc' = "finally"
    /\ UNCHANGED <<urls, status, runs, clock, conn, closes, storeVars, tx, dirExists,
                   files, idx, localVars, histVars>>

\* a slip: conn.close() after the call instead of in a finally clause
ClosesOnExitAfterCall(st) == st # "raising"

\* lines 216-221: conn.close() is in a finally clause: it runs however
\* extract_hero_image_from_urls ended (st is "running" or "raising")
ClosesOnExit(st) == TRUE

\* lines 218-221: finally: conn.close(); an open transaction is lost with it
Finally ==
    /\ pc = "finally"
    /\ conn' = IF ClosesOnExit(status) THEN "closed" ELSE conn
    /\ closes' = IF ClosesOnExit(status) THEN closes + 1 ELSE closes
    /\ tx' = <<>>
    /\ pc' = "ended"
    /\ status' = IF status = "raising" THEN "raised" ELSE "completed"
    /\ UNCHANGED <<urls, runs, clock, storeVars, dirExists, files, idx, localVars,
                   histVars>>

\* the program is started again: the store and the images directory persist
NewRun ==
    /\ pc = "ended"
    /\ runs < MaxRuns
    /\ runs' = runs + 1
    /\ pc' = "connect"
    /\ status' = "running"
    /\ conn' = "none"
    /\ closes' = 0
    /\ idx' = 0
    /\ result' = NoResult
    /\ image_src' = None
    /\ image_filepath' = None
    /\ download_successful' = FALSE
    /\ try_download_time' = NULL
    /\ successful_download_time' = NULL
    /\ stmt' = <<>>
    /\ acts' = <<>>
    /\ env' = NoEnv
    /\ touched' = FALSE
    /\ upserts' = ZeroUpserts
    /\ startDb' = db
    /\ UNCHANGED <<urls, clock, storeVars, tx, dirExists, files>>

Next ==
    \/ Tick
    \/ Connect
    \/ CreateTable
    \/ \E k \in 1..3 : AddColumn(k)
    \/ InitCommit
    \/ InitFailed
    \/ MakeDirs
    \/ Launch
    \/ Select
    \/ Skip
    \/ BeginAttempt
    \/ Goto
    \/ OgImage
    \/ Figure
    \/ Resolve
    \/ Download
    \/ DbLog
    \/ Commit
    \/ Rollback
    \/ LoopExit
    \/ Finally
    \/ NewRun

Spec == Init /\ [][Next]_vars

(***************************************************************************)
(* Properties                                                              *)
(***************************************************************************)
\* the positions of an attempt, from its first navigation to its commit or rollback
AttemptPcs == {"goto", "og_image", "figure", "found", "download", "db_log",
               "commit", "rollback"}

\* the INSERT/UPDATE statements in a history of operations
UpsertCount(a) == Cardinality({i \in 1..Len(a) : a[i] \in {"insert", "update"}})

\* the step ends the processing of the current list entry
EntryEnds == pc # "launch" /\ pc' = "select" /\ idx' = idx + 1

\* the image of the current entry was located and saved without error
Saved ==
    /\ env.nav = "ok"
    /\ env.meta = "value" \/ env.figure = "value"
    /\ env.download = "ok"

\* C1: an entry whose record has successful_download = 1 when it is read is
\* finished in the very step that follows the read, with no navigation, lookup,
\* fetch, file write or store write, and a record with successful_download = 1
\* never changes afterwards.
C1_SkipTouchesNothing ==
    [][ /\ (pc = "decide" /\ HasRow(db, Url) /\ db[Url].succ = 1)
            => /\ EntryEnds
               /\ UNCHANGED <<storeVars, tx, dirExists, files, touched, upserts,
                              status, conn>>
        /\ \A u \in DOMAIN db :
              db[u].succ = 1 => (u \in DOMAIN db' /\ db'[u] = db[u]) ]_vars

\* C1 witness: the first entry of the list is finished, its record says
\* successful, and this execution has performed no operation at all
C1_Witness ==
    /\ pc = "select" /\ idx = 2
    /\ HasRow(db, urls[1]) /\ db[urls[1]].succ = 1
    /\ ~touched /\ upserts[urls[1]] = 0 /\ db = startDb

\* the statement executed for the current entry carries the attempt's time and
\* its true outcome
CarriesOutcome(st) ==
    /\ st.url = Url
    /\ st.row.try \notin {NULL, Blank}
    /\ st.row.succ = IF Saved THEN 1 ELSE 0

\* C2 (as claimed): after a run that completed, every URL of the list that had
\* no record or successful_download = 0 when the run started has had exactly
\* one INSERT/UPDATE executed for it.
C2_OneUpsertPerUrl ==
    (pc = "ended" /\ status = "completed")
        => \A i \in 1..Len(urls) :
              (~HasRow(startDb, urls[i]) \/ startDb[urls[i]].succ = 0)
                  => upserts[urls[i]] = 1

\* C2 (amended): every list entry that is processed to its end either was
\* skipped (its record said successful when read) or had exactly one
\* INSERT/UPDATE executed for its URL, INSERT exactly when the URL had no
\* record, carrying a try_download_datetime and the true outcome.
C2_OneUpsertPerAttemptedEntry ==
    [][ /\ pc = "db_log"
            => /\ UpsertCount(acts) = 0 /\ UpsertCount(acts') = 1
               /\ Len(stmt') = 1 /\ CarriesOutcome(stmt'[1])
               /\ stmt'[1].kind = IF HasRow(db, Url) THEN "update" ELSE "insert"
        /\ (pc \in AttemptPcs /\ pc # "db_log" /\ ~EntryEnds)
            => UpsertCount(acts') = UpsertCount(acts) /\ stmt' = stmt
        /\ EntryEnds
            => \/ pc = "decide" /\ HasRow(db, Url) /\ db[Url].succ = 1
               \/ /\ pc \in {"commit", "rollback"}
                  /\ UpsertCount(acts) = 1
                  /\ Len(stmt) = 1 /\ CarriesOutcome(stmt[1]) ]_vars

\* C2 witness: a URL that failed before is attempted again, this time with
\* success, and its UPDATE has been executed
C2_Witness ==
    /\ pc = "commit"
    /\ stmt[1].kind = "update" /\ stmt[1].row.succ = 1
    /\ upserts[Url] = 1

RowOk(r) ==
    /\ r.succ \in {0, 1}
    /\ r.succ = 1 => (r.sdt # NULL /\ r.sdt >= r.try)
    /\ r.succ = 0 => r.sdt = NULL

\* C3: every record, committed or pending, has successful_download_datetime
\* present and not before try_download_datetime when successful_download = 1,
\* and absent when successful_download = 0.
C3_SuccessTimeIffSuccessful ==
    /\ \A u \in DOMAIN db : RowOk(db[u])
    /\ \A u \in DOMAIN View.db : RowOk(View.db[u])

\* C3 witness: a successful record whose success came after the attempt began,
\* beside a failed one
C3_Witness ==
    \E u, v \in DOMAIN db :
        /\ db[u].succ = 1 /\ db[u].sdt > db[u].try
        /\ db[v].succ = 0 /\ db[v].try # Blank

\* C4: the flag written for an attempted URL is 1 exactly when the image was
\* located and saved without error; a navigation error, no image source, a
\* failed fetch and a failed file write each give 0.
C4_FlagIffLocatedAndSaved ==
    /\ pc \in {"commit", "rollback"}
        => /\ Len(stmt) = 1
           /\ stmt[1].row.succ = 1 <=> Saved
           /\ env.nav = "err" => stmt[1].row.succ = 0
           /\ (env.nav = "ok" /\ env.meta # "value" /\ env.figure # "value")
                 => stmt[1].row.succ = 0
           /\ env.download \in DownloadOutcomes \ {"ok"} => stmt[1].row.succ = 0
    /\ pc = "commit" => (HasRow(View.db, Url) /\ View.db[Url] = stmt[1].row)

\* C4 witness: the file write failed and the pending record says 0
C4_Witness ==
    /\ pc = "commit"
    /\ env.download = "write_err"
    /\ View.db[Url].succ = 0

\* C5 (as claimed): once the URL loop has begun, the program ends only after
\* every entry of the list has been processed.
C5_EveryEntryProcessed ==
    (pc = "ended" /\ idx >= 1) => idx = Len(urls) + 1

\* C6: when the INSERT/UPDATE or its commit fails, the handler is reached with
\* the committed store as it was; the rollback leaves the committed store
\* unchanged and nothing pending, and the next entry follows. During an attempt
\* the committed store changes at a successful commit only.
C6_FailedWriteRollsBack ==
    [][ /\ (pc \in {"db_log", "commit"} /\ env'.write \in {"err", "commit_err"})
            => (pc' = "rollback" /\ UNCHANGED storeVars)
        /\ pc = "rollback"
            => (UNCHANGED <<storeVars, status>> /\ tx' = <<>> /\ EntryEnds)
        /\ (pc \in AttemptPcs \cup {"decide"} /\ db' # db)
            => (pc = "commit" /\ db' = tx[1].db) ]_vars

\* C6 witness: the INSERT of the first entry was executed and rolled back: the
\* URL has no record, as before, and the second entry is next
C6_Witness ==
    /\ pc = "select" /\ idx = 2 /\ status = "running"
    /\ upserts[urls[1]] = 1
    /\ ~HasRow(db, urls[1]) /\ tx = <<>>

\* C7: an execution whose startup failed has ended without processing a URL:
\* no navigation, lookup, fetch, file write, directory creation or record write.
C7_FailedStartupProcessesNothing ==
    status = "startup_failed"
        => /\ pc = "ended"
           /\ idx = 0 /\ acts = <<>> /\ ~touched
           /\ upserts = ZeroUpserts /\ db = startDb

\* C7 witness: startup failed after the connection was opened, with URLs to
\* process
C7_Witness ==
    /\ status = "startup_failed" /\ conn = "closed"
    /\ Len(urls) > 0

\* the positions at which the program uses the connection
UsesStore ==
    \/ pc \in {"create_table", "alter1", "alter2", "alter3", "init_commit",
               "db_log", "commit", "rollback"}
    \/ pc = "select" /\ idx <= Len(urls)

\* C8: the connection, once opened, is closed exactly once by the time the
\* program ends, whichever way it ends, and it is not used after that.
C8_ClosedOnceNeverUsedAfter ==
    /\ closes <= 1
    /\ conn = "closed" <=> closes = 1
    /\ pc = "ended" => conn # "open"
    /\ (pc = "ended" /\ conn = "none") => status = "startup_failed"
    /\ UsesStore => conn = "open"

\* C8 witness: an exception left the URL loop midway and the connection is closed
C8_Witness ==
    /\ pc = "ended" /\ status = "raised"
    /\ idx \in 1..Len(urls)
    /\ conn = "closed" /\ closes = 1

Has(op) == \E i \in 1..Len(acts) : acts[i] = op
Times(op) == Cardinality({i \in 1..Len(acts) : acts[i] = op})
Before(x, y) == \E i, j \in 1..Len(acts) : i < j /\ acts[i] = x /\ acts[j] = y

\* C9: on a URL with '/videos/' the meta lookup comes first and the figure
\* lookup follows exactly when the meta lookup gave no value, a meta value being
\* the source used; on another URL only the figure lookup is made; when no
\* lookup gives a value nothing is fetched and the attempt is recorded as failed.
C9_LocatorOrder ==
    pc \in AttemptPcs
        => /\ Times("og_image") <= 1 /\ Times("figure") <= 1
           /\ Has("og_image") => Url = UrlV
           /\ (Url = UrlV /\ env.nav = "ok") => (pc = "og_image" \/ Has("og_image"))
           /\ (Url = UrlV /\ Has("figure"))
                 => (Before("og_image", "figure") /\ env.meta = "nothing")
           /\ (Url = UrlV /\ env.meta = "nothing") => (pc = "figure" \/ Has("figure"))
           /\ (Url # UrlV /\ env.nav = "ok") => (pc = "figure" \/ Has("figure"))
           /\ env.meta = "value"
                 => /\ ~Has("figure")
                    /\ env.src = SrcProto
                    /\ pc = "found" => image_src = env.src
           /\ env.figure = "nothing"
                 => /\ ~Has("get")
                    /\ pc \in {"found", "db_log", "commit", "rollback"}
                    /\ pc \in {"commit", "rollback"} => stmt[1].row.succ = 0

\* C9 witness: a video page whose meta tag gave nothing and whose figure gave
\* the source that is now being fetched
C9_Witness ==
    /\ pc = "download" /\ Url = UrlV
    /\ acts = <<"select", "goto", "og_image", "figure">>
    /\ env.meta = "nothing" /\ env.figure = "value"

(***************************************************************************)
(* The resolution of an image source, on its own: the state in which a     *)
(* lookup has just given a source for the page URL, and the step that      *)
(* resolves it                                                             *)
(***************************************************************************)
ResolveSchemes == { <<"h","t","t","p">>, <<"h","t","t","p","s">> }
ResolveHosts   == { <<"s">>, <<"s",".","c">> }
\* what follows the host: nothing, a path, a query, a fragment
ResolveRests   == { <<>>, <<"/">>, <<"/","a","/">>, <<"?","q">>,
                    <<"?","q","=","/","a">>, <<"#","f">> }
ResolvePageUrls ==
    { sch \o <<":","/","/">> \o h \o r :
        sch \in ResolveSchemes, h \in ResolveHosts, r \in ResolveRests }
\* protocol-relative, root-relative, absolute and document-relative sources
ResolveSources ==
    { <<"/","/","c","/","x",".","p","n","g">>, <<"/","/","/","x">>,
      <<"/","i",".","p","n","g">>, <<"i",".","p","n","g">>,
      <<"h","t","t","p",":","/","/","c","/","i">> }

InitResolve ==
    /\ \E u \in ResolvePageUrls : urls = <<u>>
    /\ image_src \in ResolveSources
    /\ env = [NoEnv EXCEPT !.nav = "ok", !.figure = "value", !.src = image_src]
    /\ acts = <<"select", "goto", "figure">>
    /\ pc = "found"
    /\ idx = 1
    /\ status = "running"
    /\ runs = 1
    /\ clock = 1
    /\ conn = "open"
    /\ closes = 0
    /\ tableExists = TRUE /\ cols = AllCols /\ db = EmptyDb
    /\ tx = <<>>
    /\ dirExists = TRUE
    /\ files = NoFiles
    /\ result = NoResult
    /\ image_filepath = None
    /\ download_successful = FALSE
    /\ try_download_time = clock
    /\ successful_download_time = NULL
    /\ stmt = <<>>
    /\ touched = TRUE
    /\ upserts = ZeroUpserts
    /\ startDb = db

NextResolve == Resolve

SpecResolve == InitResolve /\ [][NextResolve]_vars

\* the scheme of a URL: what precedes '://'
SchemeOf(url) ==
    LET k == CHOOSE i \in 1..Len(url) :
                 /\ SubSeq(url, i, i + 2) = <<":","/","/">>
                 /\ \A j \in 1..(i - 1) : SubSeq(url, j, j + 2) # <<":","/","/">>
    IN  SubSeq(url, 1, k - 1)

\* the host of a URL: what follows '://' up to the path, query or fragment
HostOf(url) ==
    LET from == Len(SchemeOf(url)) + 4
        ends == {i \in from..Len(url) : url[i] \in {"/", "?", "#"}}
        to   == IF ends = {} THEN Len(url)
                ELSE (CHOOSE i \in ends : \A j \in ends : i <= j) - 1
    IN  SubSeq(url, from, to)

\* C10 (as claimed): a source that begins with '//' resolves to the page URL's
\* scheme, ':' and the source; one that begins with a single '/' to
\* scheme://host and the source; any other source is used unchanged.
C10_ResolvedAsSpecified ==
    pc = "download"
        => image_src =
             IF StartsWith(env.src, <<"/","/">>)
             THEN SchemeOf(Url) \o <<":">> \o env.src
             ELSE IF StartsWith(env.src, <<"/">>)
             THEN SchemeOf(Url) \o <<":","/","/">> \o HostOf(Url) \o env.src
             ELSE env.src

(***************************************************************************)
(* The name of the saved file, on its own: the state in which a lookup has *)
(* just given a source for the page URL, and the step that computes        *)
(* sanitize_filename(url), the extension and the path of the file          *)
(***************************************************************************)
\* a URL longer than the limit of a name, with '/' and '.' in its path
LongUrl ==
    <<"h","t","t","p","s",":","/","/","s","/">>
        \o [i \in 1..(FilenameLimit + 3) |->
                IF i % 10 = 0 THEN "/" ELSE IF i % 7 = 0 THEN "." ELSE "a"]

\* the strings sanitize_filename is given: URLs with one and with several
\* trailing '/', without a path, of another scheme, with characters outside
\* [a-zA-Z0-9_-], longer than the limit, and strings that are no URL
FilenamePageUrls ==
    { <<"h","t","t","p","s",":","/","/","s","/","a","/">>,
      <<"h","t","t","p",":","/","/","s","/","a","/","/">>,
      <<"h","t","t","p",":","/","/","s">>,
      <<"h","t","t","p",":","/","/","s","/">>,
      <<"f","t","p",":","/","/","s","/","a">>,
      <<"H","T","T","P",":","/","/","s","/","a">>,
      <<"h","t","t","p",":","/","/","/","x">>,
      <<"h","t","t","p",":","/","/","s","/","A","-","b","_","9",".","h","t","m","?","x","=","1"," ","%">>,
      <<"x","/","h","t","t","p",":","/","/","s","/","b">>,
      <<"/">>,
      <<>>,
      LongUrl }

\* the sources a lookup gives: every extension of the list, in lower and in
\* upper case, an extension outside it, none, one followed by a query or a
\* fragment, a dot in the host or in a directory only, and relative sources
FilenameSources ==
    { <<"h","t","t","p",":","/","/","c","/","x",".","j","p","g">>,
      <<"h","t","t","p",":","/","/","c","/","x",".","j","p","e","g">>,
      <<"h","t","t","p",":","/","/","c","/","x",".","p","n","g">>,
      <<"h","t","t","p",":","/","/","c","/","x",".","g","i","f">>,
      <<"h","t","t","p",":","/","/","c","/","x",".","w","e","b","p">>,
      <<"h","t","t","p",":","/","/","c","/","x",".","P","N","G">>,
      <<"h","t","t","p",":","/","/","c","/","x",".","J","p","G">>,
      <<"h","t","t","p",":","/","/","c","/","x",".","b","m","p">>,
      <<"h","t","t","p",":","/","/","c","/","x">>,
      <<"h","t","t","p",":","/","/","c","/","x",".">>,
      <<"h","t","t","p",":","/","/","c","/",".","p","n","g">>,
      <<"h","t","t","p",":","/","/","c","/","a",".","b","/","x">>,
      <<"h","t","t","p",":","/","/","c",".","c","o","m">>,
      <<"h","t","t","p",":","/","/","c","/","x",".","p","n","g","?","v","=","1">>,
      <<"h","t","t","p",":","/","/","c","/","x",".","g","i","f","#","f">>,
      <<"/","i",".","j","p","g">>,
      <<"/","/","c","/","m",".","w","e","b","p">>,
      <<"i",".","p","n","g">> }

InitFilename ==
    /\ \E u \in FilenamePageUrls : urls = <<u>>
    /\ image_src \in FilenameSources
    /\ env = [NoEnv EXCEPT !.nav = "ok", !.figure = "value", !.src = image_src]
    /\ acts = <<"select", "goto", "figure">>
    /\ pc = "found"
    /\ idx = 1
    /\ status = "running"
    /\ runs = 1
    /\ clock = 1
    /\ conn = "open"
    /\ closes = 0
    /\ tableExists = TRUE /\ cols = AllCols /\ db = EmptyDb
    /\ tx = <<>>
    /\ dirExists = TRUE
    /\ files = NoFiles
    /\ result = NoResult
    /\ image_filepath = None
    /\ download_successful = FALSE
    /\ try_download_time = clock
    /\ successful_download_time = NULL
    /\ stmt = <<>>
    /\ touched = TRUE
    /\ upserts = ZeroUpserts
    /\ startDb = db

NextFilename == Resolve

SpecFilename == InitFilename /\ [][NextFilename]_vars

\* a URL without its query and fragment
WithoutQuery(u) ==
    LET ends == {i \in 1..Len(u) : u[i] \in {"?", "#"}}
    IN  IF ends = {} THEN u
        ELSE SubSeq(u, 1, (CHOOSE i \in ends : \A j \in ends : i <= j) - 1)

\* the path of a URL: what follows the host, up to the query or fragment; of a
\* string without '://' all of it up to the query or fragment
PathOf(u) ==
    LET w     == WithoutQuery(u)
        marks == {i \in 1..(Len(w) - 2) : SubSeq(w, i, i + 2) = <<":","/","/">>}
        from  == IF marks = {} THEN 1
                 ELSE (CHOOSE i \in marks : \A j \in marks : i <= j) + 3
        rest  == SubSeq(w, from, Len(w))
        slash == FirstIndex(rest, "/")
    IN  IF marks = {} THEN w
        ELSE IF slash = 0 THEN <<>>
        ELSE SubSeq(rest, slash, Len(rest))

\* the extension policy applied to the path of the resolved image URL
PathExt(u) ==
    LET raw == SplitExt(PathOf(u))
    IN  IF raw = <<>> THEN <<".","j","p","g">>
        ELSE IF Lower(raw) \in valid_extensions THEN raw
        ELSE <<".","j","p","g">>

\* C11 (as claimed): the name of the saved file is sanitize(page URL) followed
\* by the extension of the resolved image URL's path, '.jpg' standing in for a
\* missing extension and for one whose lower-case form is not in the list, an
\* extension whose lower-case form is in the list being kept.
C11_ExtensionFromPath ==
    pc = "download"
        => image_filepath = sanitize_filename(Url) \o PathExt(image_src)

\* the characters of [A-Za-z0-9_-]
NameAlphabet ==
    {"A","B","C","D","E","F","G","H","I","J","K","L","M","N","O","P","Q","R","S",
     "T","U","V","W","X","Y","Z","a","b","c","d","e","f","g","h","i","j","k","l",
     "m","n","o","p","q","r","s","t","u","v","w","x","y","z","0","1","2","3","4",
     "5","6","7","8","9","_","-"}

\* the sanitized name in the path of the file: what precedes the extension
NameBase ==
    SubSeq(image_filepath, 1, Len(image_filepath) - Len(FileExt(image_src)))

\* C12: whatever string it is given (a URL or not, empty, longer than the
\* limit), sanitize_filename returns a name of at most 100 characters, each of
\* them in [A-Za-z0-9_-].
C12_NameShortAndSafe ==
    pc = "download"
        => /\ image_filepath = NameBase \o FileExt(image_src)
           /\ Len(NameBase) <= 100
           /\ \A i \in 1..Len(NameBase) : NameBase[i] \in NameAlphabet

\* C12 witness: a URL longer than the limit gave a name of exactly 100
\* characters in which characters were replaced
C12_Witness ==
    /\ pc = "download"
    /\ Len(Url) > 100
    /\ Len(NameBase) = 100
    /\ \E i \in 1..100 : NameBase[i] = "_" /\ Url[i + 10] # "_"

\* an http or https URL with a host
IsHttpUrl(u) ==
    \E sch \in ResolveSchemes :
        /\ StartsWith(u, sch \o <<":","/","/">>)
        /\ Len(u) > Len(sch) + 3
        /\ u[Len(sch) + 4] # "/"

\* the algorithm as specified: the scheme and host removed (everything through
\* the first '/' after '://'), a single trailing '/' removed, every character
\* outside [A-Za-z0-9_-] replaced by '_', the first 100 characters kept
SpecifiedName(u) ==
    LET from   == Len(SchemeOf(u)) + 4
        rest   == SubSeq(u, from, Len(u))
        slash  == FirstIndex(rest, "/")
        path   == IF slash = 0 THEN u ELSE SubSeq(rest, slash + 1, Len(rest))
        single == IF Len(path) > 0 /\ path[Len(path)] = "/"
                  THEN SubSeq(path, 1, Len(path) - 1) ELSE path
        safe   == [i \in 1..Len(single) |->
                     IF single[i] \in NameAlphabet THEN single[i] ELSE "_"]
    IN  SubSeq(safe, 1, IF Len(safe) < 100 THEN Len(safe) ELSE 100)

\* C16 (as claimed): for an http or https URL the sanitized name is the result
\* of the specified algorithm: scheme and host removed, a single trailing '/'
\* removed, characters outside [A-Za-z0-9_-] replaced by '_', truncated to 100.
C16_NameAsSpecified ==
    (pc = "download" /\ IsHttpUrl(Url)) => NameBase = SpecifiedName(Url)

\* C13: the entries are read in list order, one position after the other; a
\* position is left only by the skip, the commit or the rollback of its own
\* entry; and when the record of an entry is read nothing is pending on the
\* connection, so the read gives the committed record.
C13_OneEntryAtATime ==
    [][ /\ (pc # "ended" /\ idx' # idx)
            => /\ idx' = idx + 1 /\ pc' = "select"
               /\ pc \in {"launch", "decide", "commit", "rollback"}
               /\ tx' = <<>>
        /\ (pc \in AttemptPcs \cup {"decide"} /\ pc' = "select")
            => (idx' = idx + 1 /\ pc \in {"decide", "commit", "rollback"})
        /\ (pc = "select" /\ idx \in 1..Len(urls))
            => /\ tx = <<>>
               /\ idx' = idx
               /\ pc' = "decide"
                    => result' = IF HasRow(db, Url) THEN db[Url].succ ELSE NoResult ]_vars

\* C13 witness: the record of the first entry was written and committed, nothing
\* is pending, and the record of the second entry is about to be read
C13_Witness ==
    /\ pc = "select" /\ idx = 2 /\ Len(urls) = 2
    /\ upserts[urls[1]] = 1
    /\ HasRow(db, urls[1]) /\ db # startDb
    /\ tx = <<>>

\* the current entry is a later occurrence of a URL of the list
Repeated == idx \in 2..Len(urls) /\ \E j \in 1..(idx - 1) : urls[j] = Url

\* C14: a later occurrence of a URL is read like any entry, and the read gives
\* the record as the earlier occurrences left it; it is skipped exactly when
\* that record has successful_download = 1 and otherwise attempted, and the
\* commit of its outcome replaces that record, every other record staying as
\* it is.
C14_RepeatedUrlReadsLatest ==
    [][ Repeated
          => /\ pc = "select"
                 => /\ pc' \in {"decide", "finally"}
                    /\ pc' = "decide"
                         => result' = IF HasRow(db, Url) THEN db[Url].succ
                                      ELSE NoResult
             /\ pc = "decide"
                 => IF HasRow(db, Url) /\ db[Url].succ = 1
                    THEN EntryEnds /\ UNCHANGED <<storeVars, tx, files, upserts>>
                    ELSE pc' = "goto" /\ idx' = idx
             /\ pc \in AttemptPcs
                 => /\ ~(HasRow(db, Url) /\ db[Url].succ = 1)
                    /\ db' # db
                         => /\ pc = "commit"
                            /\ DOMAIN db' = DOMAIN db \cup {Url}
                            /\ db'[Url] = stmt[1].row
                            /\ \A v \in DOMAIN db \ {Url} : db'[v] = db[v] ]_vars

\* C14 witness: the first occurrence created the record with a failure, the
\* second occurrence succeeded and its UPDATE of that record is being committed
C14_Witness ==
    /\ pc = "commit" /\ idx = 2 /\ urls[1] = urls[2]
    /\ ~HasRow(startDb, Url)
    /\ HasRow(db, Url) /\ db[Url].succ = 0
    /\ stmt[1].kind = "update" /\ stmt[1].row.succ = 1

\* C15: the statement executed for an entry is an INSERT only when the URL has
\* no record (so the UNIQUE constraint on url is not violated) and an UPDATE
\* only when it has one with successful_download = 0, the record being as it
\* was when it was read; an UPDATE adds no record; and no step, in any
\* execution, removes a record.
C15_InsertNewUpdateFailed ==
    [][ /\ pc = "db_log"
            => /\ tx = <<>> /\ result = Fetched(db, Url)
               /\ stmt'[1].kind = "insert" => ~HasRow(db, Url)
               /\ stmt'[1].kind = "update"
                    => (HasRow(db, Url) /\ db[Url].succ = 0)
        /\ (pc = "commit" /\ stmt[1].kind = "update") => DOMAIN db' = DOMAIN db
        /\ (pc = "commit" /\ stmt[1].kind = "insert")
            => DOMAIN db' \in {DOMAIN db, DOMAIN db \cup {Url}}
        /\ DOMAIN db \subseteq DOMAIN db' ]_vars

\* C15 witness: in a second execution, with a record for each URL, the record
\* which the first execution inserted with a failure is being updated
C15_Witness ==
    /\ runs = 2 /\ pc = "commit"
    /\ stmt[1].kind = "update"
    /\ Url = UrlV /\ HasRow(startDb, Url) /\ startDb[Url].succ = 0
    /\ DOMAIN db = URLS

\* C17 (as claimed): a column addition that fails because the column exists is
\* ignored, the records and columns staying as they are; a column addition
\* that fails for any other reason (the column did not exist and does not
\* exist afterwards) makes the startup fail.
C17_OnlyDuplicateColumnIgnored ==
    [][ \A k \in 1..3 :
          pc = AlterPc[k]
            => /\ AlterCol[k] \in View.cols
                    => \/ pc' = "init_failed"
                       \/ pc' = AfterAlter[k] /\ UNCHANGED <<db, cols, tx>>
               /\ (AlterCol[k] \notin View.cols /\ AlterCol[k] \notin View'.cols)
                    => pc' = "init_failed" ]_vars

\* the download failed before a 2xx status was received
FailedBeforeStatus(o) == o \in {"get_err", "status_err", "get_other"}

\* C18: a download that fails with a transport error or a bad status opens no
\* file and leaves every file of the images directory as it was; files change
\* only in a download whose response had a good status and whose open succeeded.
C18_FailedFetchLeavesFiles ==
    [][ /\ (pc = "download" /\ FailedBeforeStatus(env'.download))
            => /\ files' = files
               /\ acts' = acts \o <<"get">>
        /\ files' # files
            => /\ pc = "download"
               /\ env'.download \in {"ok", "read_err", "read_other", "write_err"}
               /\ \A n \in DOMAIN files \ {image_filepath} :
                     n \in DOMAIN files' /\ files'[n] = files[n] ]_vars

\* C18 witness: the response had a bad status while the path held the whole
\* image of an earlier download, and it still holds it
C18_Witness ==
    /\ pc = "db_log"
    /\ env.download = "status_err"
    /\ image_filepath \in DOMAIN files
    /\ files[image_filepath].state = "full"

====
